---- MODULE Spec2Model ----
(***************************************************************************)
(* GameLoop (src/src/game-loop.ts): a fixed-timestep update scheduler.     *)
(*                                                                         *)
(* Clock readings (Date.getTime) are whole milliseconds.  The step         *)
(* interval 1000 / stepRate is in general not a whole number, so every     *)
(* quantity that is added to or compared with it (residualDelayMs,         *)
(* delayClamp, the event payloads) is held exactly, as a whole number of   *)
(* units of 1/stepRate ms: Ms(t) converts t milliseconds to these units    *)
(* and stepIntervalMs is 1000 of them.                                     *)
(***************************************************************************)
EXTENDS Integers, Sequences, FiniteSets

VARIABLES
    stepRate,          \* this.stepRate (constructor argument stepRateHz)
    delayClamp,        \* this.delayClamp, in ms
    stepFn,            \* this.stepFn: the behaviour of the caller's step function
    isRunning,         \* this._isRunning
    residualDelayMs,   \* this.residualDelayMs, in units of 1/stepRate ms
    previousStepTime,  \* this.previousStepTime, in ms
    now,               \* the host clock, in ms
    pending,           \* the host's timer queue: the wake-ups armed by setTimeout
    stepCount,         \* how many times the step function has been invoked
    lastStepTime,      \* clock reading at the latest step invocation, None if none
    dropCount,         \* how many onGameStepDropped notifications were emitted
    lastDrop,          \* payload of the latest onGameStepDropped, None if none
    starts,            \* how many times start() has been called
    op,                \* the operation that produced this state
    cycle,             \* what the latest operation did (see NoCycle)
    tickIntervalId,    \* this.tickIntervalId of the interval-timer variant
    intervals,         \* the host's recurring timers (setInterval)
    run                \* the tally of the current run, from its start() on

vars == <<stepRate, delayClamp, stepFn, isRunning, residualDelayMs,
          previousStepTime, now, pending, stepCount, lastStepTime,
          dropCount, lastDrop, starts, op, cycle, tickIntervalId, intervals,
          run>>

None == -1

\* ---------------------------------------------------------------- bounds
MaxTime == 12      \* the clock does not advance on its own beyond this
MaxStarts == 2     \* start() is called at most this many times
MaxJitter == 1     \* lateness of an "on time" wake-up, in ms
Horizon == 24      \* on-time runs fire no wake-up from this clock reading on
SlowHorizon == 80  \* the same, for the runs of the slow step function
MaxCount == 3      \* unending runs count invocations and drops up to this

\* ---------------------------------------------------------------- inputs
DefaultDelayClampMs == 200

StepRates == {250, 300}

\* opts.delayClampMs: None stands for an omitted (undefined or null) option.
ClampOpts == {None, 2, 6, 9}

\* The step function of the tests: it blocks for blockMs on its first
\* invocation, calls stop() on invocation number stopOn and throws on
\* invocation number throwOn (0: never).
Noop == [blockMs |-> 0, stopOn |-> 0, throwOn |-> 0]

StepFns == { Noop,
             [blockMs |-> 7, stopOn |-> 0, throwOn |-> 0],
             [blockMs |-> 0, stopOn |-> 2, throwOn |-> 0],
             [blockMs |-> 0, stopOn |-> 0, throwOn |-> 2] }

\* ----------------------------------------------------------------- units
Scale == stepRate

Ms(t) == t * Scale

\* get stepIntervalMs() { return 1000 / this.stepRate; }
stepIntervalMs == (Ms(1000)) \div stepRate

\* setTimeout(fn, stepIntervalMs): the host fires the callback no earlier than
\* the whole milliseconds of the delay (and at least 1 ms) after arming.
Max(a, b) == IF a >= b THEN a ELSE b

Min(a, b) == IF a <= b THEN a ELSE b

\* Statements in sequence: F applied to the value of x, computed once.
Then(x, F(_)) == CHOOSE r \in {F(v) : v \in {x}} : TRUE

\* A bug (the one of the interval-timer variant's start()): the step rate
\* is passed as the delay, where the step interval is meant.
TimerDelayAsRate == stepRate

TimerDelay == Max(1, 1000 \div stepRate)

\* provideDefaultsForMissingOpts
provideDefaultsForMissingOpts(opt) ==
    IF opt # None THEN opt ELSE DefaultDelayClampMs

\* ------------------------------------------------------------ the machine
\* The operations below are written over a record m of the loop's fields, the
\* host's clock and timer queue, and the trace of the running call.
This ==
    [ isRunning |-> isRunning, residualDelayMs |-> residualDelayMs,
      previousStepTime |-> previousStepTime, now |-> now, pending |-> pending,
      stepCount |-> stepCount, lastStepTime |-> lastStepTime,
      dropCount |-> dropCount, lastDrop |-> lastDrop,
      tickIntervalId |-> tickIntervalId, intervals |-> intervals,
      chain |-> None, ran |-> FALSE, thrown |-> FALSE,
      accrued |-> None, clamped |-> None, events |-> << >> ]

\* this.emit(event, payload) and the invocation of stepFn append to the trace.
emit(m, e, v) == [m EXCEPT !.events = Append(@, [ev |-> e, v |-> v])]

\* get residualDelayAlpha() { return residualDelayMs / stepIntervalMs; }
\* The quotient is kept as a fraction.
residualDelayAlpha(m) == [num |-> m.residualDelayMs, den |-> stepIntervalMs]

\* A bug: stop() flips the flag, where it should clear it.
stopToggle(m) == [m EXCEPT !.isRunning = ~@]

\* stop() { this._isRunning = false; }
stop(m) == [m EXCEPT !.isRunning = FALSE]

\* A bug: the next wake-up is armed with no delay.
queueNextIterationImmediate(m) ==
    emit([m EXCEPT !.pending = Append(@, [due |-> m.now, chain |-> None])],
         "arm", m.now)

\* setTimeout(() => this.update(), this.stepIntervalMs): one more wake-up is
\* pending.  chain is the time of the latest step invocation made by the
\* cycles this wake-up descends from; it is filled in when the cycle ends.
queueNextIteration(m) ==
    emit([m EXCEPT !.pending = Append(@, [due |-> m.now + TimerDelay,
                                          chain |-> None])],
         "arm", m.now + TimerDelay)

\* A bug: the clamp check uses >= where the code uses >.
clampResidualDelayAtBound(m) ==
    IF m.residualDelayMs >= Ms(delayClamp)
    THEN LET e == emit(m, "dropped", m.residualDelayMs - Ms(delayClamp))
         IN [e EXCEPT !.residualDelayMs = Min(m.residualDelayMs, Ms(delayClamp)),
                      !.dropCount = @ + 1,
                      !.lastDrop = m.residualDelayMs - Ms(delayClamp)]
    ELSE m

\* A bug: the notification carries the residual, where it should carry the
\* part of it that is discarded.
clampResidualDelayWholePayload(m) ==
    IF m.residualDelayMs > Ms(delayClamp)
    THEN LET e == emit(m, "dropped", m.residualDelayMs)
         IN [e EXCEPT !.residualDelayMs = Min(m.residualDelayMs, Ms(delayClamp)),
                      !.dropCount = @ + 1,
                      !.lastDrop = m.residualDelayMs]
    ELSE m

\* A bug: the whole residual is discarded, where the clamp should be kept.
clampResidualDelayToZero(m) ==
    IF m.residualDelayMs > Ms(delayClamp)
    THEN LET e == emit(m, "dropped", m.residualDelayMs - Ms(delayClamp))
         IN [e EXCEPT !.residualDelayMs = 0,
                      !.dropCount = @ + 1,
                      !.lastDrop = m.residualDelayMs - Ms(delayClamp)]
    ELSE m

\* A bug: the drop is notified and the residual is left as it is.
clampResidualDelayNotifyOnly(m) ==
    IF m.residualDelayMs > Ms(delayClamp)
    THEN LET e == emit(m, "dropped", m.residualDelayMs - Ms(delayClamp))
         IN [e EXCEPT !.dropCount = @ + 1,
                      !.lastDrop = m.residualDelayMs - Ms(delayClamp)]
    ELSE m

\* if (residualDelayMs > delayClamp) { emit(onGameStepDropped, residualDelayMs - delayClamp);
\*                                      residualDelayMs = Math.min(residualDelayMs, delayClamp); }
clampResidualDelay(m) ==
    IF m.residualDelayMs > Ms(delayClamp)
    THEN LET e == emit(m, "dropped", m.residualDelayMs - Ms(delayClamp))
         IN [e EXCEPT !.residualDelayMs = Min(m.residualDelayMs, Ms(delayClamp)),
                      !.dropCount = @ + 1,
                      !.lastDrop = m.residualDelayMs - Ms(delayClamp)]
    ELSE m

\* One invocation of the caller's step function.
callStepFn(m) ==
    LET n == m.stepCount + 1
        s == emit([m EXCEPT !.stepCount = n, !.lastStepTime = m.now,
                            !.chain = m.now],
                  "step", m.now)
        b == IF n = 1 THEN [s EXCEPT !.now = @ + stepFn.blockMs] ELSE s
        t == IF n = stepFn.stopOn THEN stop(b) ELSE b
    IN IF n = stepFn.throwOn THEN [t EXCEPT !.thrown = TRUE] ELSE t

\* A bug: the drain loop uses > where the code uses >=.
RECURSIVE drainStrict(_)
drainStrictRest(s) ==
    IF s.thrown THEN s
    ELSE drainStrict([s EXCEPT !.residualDelayMs = @ - stepIntervalMs])

drainStrict(m) ==
    IF m.residualDelayMs > stepIntervalMs
    THEN Then(callStepFn(m), drainStrictRest)
    ELSE m

\* while (residualDelayMs >= stepIntervalMs) { stepFn(); residualDelayMs -= stepIntervalMs; }
\* A step function that throws ends the loop, and the call, where it is.
RECURSIVE drain(_)
drainRest(s) ==
    IF s.thrown THEN s
    ELSE drain([s EXCEPT !.residualDelayMs = @ - stepIntervalMs])

drain(m) ==
    IF m.residualDelayMs >= stepIntervalMs
    THEN Then(callStepFn(m), drainRest)
    ELSE m

\* The wake-up armed by this cycle learns the chain's latest step time.
closeChain(m, armedAt) ==
    [m EXCEPT !.pending =
        [i \in 1..Len(m.pending) |->
            IF i = armedAt THEN [m.pending[i] EXCEPT !.chain = m.chain]
            ELSE m.pending[i]]]

\* A bug: the previous wake time is not advanced, so that the same clock time
\* is added again by the next cycle.
measureFromFirstWake(m) ==
    [m EXCEPT !.residualDelayMs = @ + Ms(m.now - m.previousStepTime),
              !.accrued = m.residualDelayMs + Ms(m.now - m.previousStepTime)]

\* const now = currentTime(); residualDelayMs += now - previousStepTime;
\* previousStepTime = now;
measure(m) ==
    [m EXCEPT !.residualDelayMs = @ + Ms(m.now - m.previousStepTime),
              !.previousStepTime = m.now,
              !.accrued = m.residualDelayMs + Ms(m.now - m.previousStepTime)]

\* The drain loop, entered with the residual the clamp check left.
drainClamped(m) == drain([m EXCEPT !.clamped = m.residualDelayMs])

\* this.emit(this.onUpdate, this.residualDelayAlpha), unless the step function
\* threw; the wake-up this cycle armed is the latest of the queue.
notify(m) ==
    closeChain(IF m.thrown THEN m ELSE emit(m, "update", residualDelayAlpha(m)),
               Len(m.pending))

\* A bug: the next wake-up is armed after the drain loop, where an exception
\* of the step function has already ended the call.
queueNextIterationUnlessThrown(m) ==
    IF m.thrown THEN m ELSE queueNextIteration(m)

runCycleArmLast(m) ==
    Then(Then(Then(Then(measure([m EXCEPT !.ran = TRUE]),
                        clampResidualDelay),
                   drainClamped),
              queueNextIterationUnlessThrown),
         notify)

\* A bug: the clamp check is made after the drain loop, where it should
\* precede it.
runCycleClampLast(m) ==
    Then(Then(Then(Then(queueNextIteration([m EXCEPT !.ran = TRUE]),
                        measure),
                   drainClamped),
              clampResidualDelay),
         notify)

\* A bug: onUpdate is emitted before the drain loop, where it should follow it.
runCycleNotifyFirst(m) ==
    Then(Then(Then(Then(queueNextIteration([m EXCEPT !.ran = TRUE]),
                        measure),
                   clampResidualDelay),
              notify),
         drainClamped)

\* update(), from the guard on: arm the next wake-up, measure, clamp, drain,
\* notify.
runCycle(m) ==
    Then(Then(Then(Then(queueNextIteration([m EXCEPT !.ran = TRUE]),
                        measure),
                   clampResidualDelay),
              drainClamped),
         notify)

\* A bug: update() without its guard on _isRunning.
updateUnguarded(m) == runCycle(m)

\* if (!this._isRunning) return;  then the cycle.
update(m) == IF ~m.isRunning THEN m ELSE runCycle(m)

\* A bug: start() leaves the previous wake time as it is.
startFromPreviousWake(m) ==
    LET s == stop(m)
    IN update([s EXCEPT !.isRunning = TRUE])

\* start() { this.stop(); previousStepTime = currentTime(); _isRunning = true; update(); }
start(m) ==
    LET s == stop(m)
    IN update([s EXCEPT !.previousStepTime = s.now, !.isRunning = TRUE])

\* ----------------------------------------------------------------- state
\* What an operation did: whether a scheduling cycle ran past its guard, the
\* residual after the elapsed time was added (accrued) and after the clamp
\* check (clamped), the trace of arm / dropped / step / update events, whether
\* the step function threw, and the step times before the operation: of any
\* chain (prevStep) and of the chain the fired wake-up belongs to (chainPrev).
\* For start(): whether the loop was stopped when it was called (wasStopped)
\* and the previous wake time it replaced (prevWake).
NoCycle ==
    [ ran |-> FALSE, thrown |-> FALSE, accrued |-> None, clamped |-> None,
      events |-> << >>, prevStep |-> None, chainPrev |-> None,
      wasStopped |-> FALSE, prevWake |-> None ]

\* The tally of a run: the clock reading (at) and the residual at its start(),
\* the count of step invocations made before it (steps), and the sum of the
\* onGameStepDropped payloads emitted since (dropped).
NoRun == [ at |-> None, residual |-> 0, steps |-> 0, dropped |-> 0 ]

\* The payload of the onGameStepDropped that operation m emitted, 0 if none.
DropOf(m) == IF m.dropCount > dropCount THEN m.lastDrop ELSE 0

Tally(m, name) ==
    IF name = "start"
    THEN [ at |-> now, residual |-> residualDelayMs, steps |-> stepCount,
           dropped |-> DropOf(m) ]
    ELSE [run EXCEPT !.dropped = @ + DropOf(m)]

Commit(m, name, chainPrev) ==
    /\ run' = Tally(m, name)
    /\ isRunning' = m.isRunning
    /\ residualDelayMs' = m.residualDelayMs
    /\ previousStepTime' = m.previousStepTime
    /\ now' = m.now
    /\ pending' = m.pending
    /\ stepCount' = m.stepCount
    /\ lastStepTime' = m.lastStepTime
    /\ dropCount' = m.dropCount
    /\ lastDrop' = m.lastDrop
    /\ op' = name
    /\ cycle' = [ ran |-> m.ran, thrown |-> m.thrown, accrued |-> m.accrued,
                  clamped |-> m.clamped, events |-> m.events,
                  prevStep |-> lastStepTime, chainPrev |-> chainPrev,
                  wasStopped |-> (name = "start" /\ ~isRunning),
                  prevWake |-> IF name = "start" THEN previousStepTime
                               ELSE None ]
    /\ UNCHANGED <<stepRate, delayClamp, stepFn, tickIntervalId, intervals>>

\* The state after construction: the loop is stopped, nothing is armed.
InitWith(rates, clampOpts, fns) ==
    /\ stepRate \in rates
    /\ \E o \in clampOpts : delayClamp = provideDefaultsForMissingOpts(o)
    /\ stepFn \in fns
    /\ isRunning = FALSE
    /\ residualDelayMs = 0
    /\ now = 0
    /\ previousStepTime = 0
    /\ pending = << >>
    /\ stepCount = 0
    /\ lastStepTime = None
    /\ dropCount = 0
    /\ lastDrop = None
    /\ starts = 0
    /\ op = "init"
    /\ cycle = NoCycle
    /\ tickIntervalId = None
    /\ intervals = {}
    /\ run = NoRun

Init == InitWith(StepRates, ClampOpts, StepFns)

\* --------------------------------------------------------------- actions
Remove(q, i) == [k \in 1..(Len(q) - 1) |-> IF k < i THEN q[k] ELSE q[k + 1]]

\* The caller calls start().
Start ==
    /\ starts < MaxStarts
    /\ starts' = starts + 1
    /\ \E m \in { start(This) } : Commit(m, "start", None)

\* The caller calls stop().
Stop ==
    /\ Commit(stop(This), "stop", None)
    /\ UNCHANGED starts

\* The host runs the callback of pending wake-up i with the clock at t.
Fire(i, t) ==
    /\ \E m \in { update([This EXCEPT !.pending = Remove(pending, i), !.now = t,
                                      !.chain = pending[i].chain]) } :
           Commit(m, "wake", pending[i].chain)
    /\ UNCHANGED starts

\* A wake-up that is due fires, however late.
Wake ==
    \E i \in 1..Len(pending) :
        /\ pending[i].due <= now
        /\ Fire(i, now)

\* Time passes.
AdvanceClock ==
    /\ now < MaxTime
    /\ now' = now + 1
    /\ op' = "advance"
    /\ cycle' = NoCycle
    /\ UNCHANGED <<stepRate, delayClamp, stepFn, isRunning, residualDelayMs,
                   previousStepTime, pending, stepCount, lastStepTime,
                   dropCount, lastDrop, starts, tickIntervalId, intervals,
                   run>>

Next == Start \/ Stop \/ Wake \/ AdvanceClock

Spec == Init /\ [][Next]_vars

\* ------------------------------------------------------- runs kept on time
\* The earliest pending wake-up fires when it is due, or as soon as the running
\* call has returned if that is later, at most MaxJitter ms late.
WakeOnTimeUntil(limit) ==
    /\ pending # << >>
    /\ now < limit
    /\ \E j \in 0..MaxJitter : Fire(1, Max(now, pending[1].due) + j)

WakeOnTime == WakeOnTimeUntil(Horizon)

WakeOnTimeSlow == WakeOnTimeUntil(SlowHorizon)

\* A step function of negligible execution time, wake-ups on time.
InitFast == InitWith(StepRates, ClampOpts, {Noop})

NextFast == Start \/ Stop \/ WakeOnTime

SpecFast == InitFast /\ [][NextFast]_vars

\* The run of the test 'drops game steps if step fn takes too long': the step
\* function blocks on its first invocation only, for longer than the clamp;
\* the loop is started once and its wake-ups are on time.
SlowStepRates == {100, 250}

SlowClampOpts == {5, 30}

SlowStepFns == { [blockMs |-> 31, stopOn |-> 0, throwOn |-> 0],
                 [blockMs |-> 50, stopOn |-> 0, throwOn |-> 0] }

InitSlow == InitWith(SlowStepRates, SlowClampOpts, SlowStepFns)

StartOnce == starts = 0 /\ Start

NextSlow == StartOnce \/ WakeOnTimeSlow

SpecSlow == InitSlow /\ [][NextSlow]_vars

\* ------------------------------------------------------ runs without an end
\* The loop uses clock readings only through their differences (now minus
\* previousStepTime, due minus now), and the step function of the tests tells
\* its first invocations from the later ones only.  A run that never ends is
\* followed in a finite state space by re-basing it: every clock reading held
\* is moved back by the earliest of them, the counts stop at MaxCount and the
\* tally of the run starts again from the latest wake-up.
Readings ==
    {previousStepTime}
      \cup {x \in {lastStepTime, cycle.prevStep, cycle.chainPrev,
                   cycle.prevWake} : x # None}
      \cup {pending[i].chain : i \in {k \in 1..Len(pending) : pending[k].chain # None}}
      \cup {cycle.events[i].v :
               i \in {k \in 1..Len(cycle.events) : cycle.events[k].ev \in {"arm", "step"}}}

Base == CHOOSE x \in Readings : \A y \in Readings : x <= y

Back(t, d) == IF t = None THEN None ELSE t - d

BackEvent(e, d) == IF e.ev \in {"arm", "step"} THEN [e EXCEPT !.v = @ - d] ELSE e

Rebase ==
    /\ Base > 0 \/ stepCount > MaxCount \/ dropCount > MaxCount
    /\ now' = now - Base
    /\ previousStepTime' = previousStepTime - Base
    /\ lastStepTime' = Back(lastStepTime, Base)
    /\ pending' = [i \in 1..Len(pending) |->
                      [due |-> pending[i].due - Base,
                       chain |-> Back(pending[i].chain, Base)]]
    /\ cycle' = [cycle EXCEPT
                    !.prevStep = Back(@, Base), !.chainPrev = Back(@, Base),
                    !.prevWake = Back(@, Base),
                    !.events = [i \in 1..Len(cycle.events) |->
                                   BackEvent(cycle.events[i], Base)]]
    /\ stepCount' = Min(stepCount, MaxCount)
    /\ dropCount' = Min(dropCount, MaxCount)
    /\ run' = [ at |-> previousStepTime - Base, residual |-> residualDelayMs,
                steps |-> Min(stepCount, MaxCount), dropped |-> 0 ]
    /\ UNCHANGED <<stepRate, delayClamp, stepFn, isRunning, residualDelayMs,
                   lastDrop, starts, op, tickIntervalId, intervals>>

InitLive == InitWith(StepRates, ClampOpts, StepFns)

NextLive == StartOnce \/ WakeOnTime \/ Rebase

\* The host fires every wake-up it was asked for (setTimeout), so a wake-up
\* that stays pending is eventually run.
SpecLive ==
    InitLive /\ [][NextLive]_vars /\ WF_vars(WakeOnTime) /\ WF_vars(Rebase)

\* ------------------------------------------------ the interval-timer variant
\* src/unnamed/part_000: the loop is driven by one recurring timer, where
\* game-loop.ts re-arms a one-shot timer in every cycle.  Its fields
\* previousStepTime, residualDelay, delayClamp and stepRate are held in the
\* variables of the same names (residualDelay in residualDelayMs).

\* get msPerStep() { return 1000 / this.stepRate; }
msPerStep == (Ms(1000)) \div stepRate

\* The host's setInterval(fn, delay), returning id: a recurring timer of that
\* period (at least 1 ms) is active.
setInterval(m, id, delay) ==
    [m EXCEPT !.intervals = @ \cup {[id |-> id, period |-> Max(1, delay),
                                     due |-> m.now + Max(1, delay)]}]

\* The host's clearInterval(id): no effect when id names no active timer.
clearInterval(m, id) == [m EXCEPT !.intervals = {t \in @ : t.id # id}]

\* stop() { clearInterval(this.tickIntervalId); }
intervalStop(m) == clearInterval(m, m.tickIntervalId)

\* start() { this.stop();
\*           this.tickIntervalId = setInterval(() => this.update(), this.stepRate);
\*           this.previousStepTime = currentTime(); }
intervalStart(m, id) ==
    LET s == intervalStop(m)
        t == setInterval(s, id, stepRate)
    IN [t EXCEPT !.tickIntervalId = id, !.previousStepTime = t.now]

\* isRunning() { return this.tickIntervalId != null; }
intervalIsRunning(m) == m.tickIntervalId # None

\* this.emit(this.onUpdate, this.residualDelay)
intervalNotify(m) ==
    IF m.thrown THEN m ELSE emit(m, "update", m.residualDelayMs)

\* update(): measure, clamp, drain, notify; the statements are those of
\* game-loop.ts, without the guard and without the re-arming.
intervalUpdate(m) ==
    Then(Then(Then(measure([m EXCEPT !.ran = TRUE]), clampResidualDelay),
              drainClamped),
         intervalNotify)

CommitInterval(m, name) ==
    /\ residualDelayMs' = m.residualDelayMs
    /\ previousStepTime' = m.previousStepTime
    /\ now' = m.now
    /\ stepCount' = m.stepCount
    /\ lastStepTime' = m.lastStepTime
    /\ dropCount' = m.dropCount
    /\ lastDrop' = m.lastDrop
    /\ tickIntervalId' = m.tickIntervalId
    /\ intervals' = m.intervals
    /\ op' = name
    /\ cycle' = [ ran |-> m.ran, thrown |-> m.thrown, accrued |-> m.accrued,
                  clamped |-> m.clamped, events |-> m.events,
                  prevStep |-> lastStepTime, chainPrev |-> None,
                  wasStopped |-> FALSE, prevWake |-> None ]
    /\ UNCHANGED <<stepRate, delayClamp, stepFn, isRunning, pending, run>>

IntervalQuantum == 25    \* the clock of these runs advances by this much, in ms
IntervalHorizon == 150   \* and not beyond this

IntervalStepRates == {25, 50}

IntervalClampOpts == {None, 30}

IntervalStepFns == { Noop, [blockMs |-> 0, stopOn |-> 0, throwOn |-> 2] }

InitInterval == InitWith(IntervalStepRates, IntervalClampOpts, IntervalStepFns)

\* The caller calls start(); the host numbers its timers from 1.
IntervalStart ==
    /\ starts < MaxStarts
    /\ starts' = starts + 1
    /\ \E m \in { intervalStart(This, starts + 1) } : CommitInterval(m, "start")

\* The caller calls stop().
IntervalStop ==
    /\ CommitInterval(intervalStop(This), "stop")
    /\ UNCHANGED starts

\* An active recurring timer that is due runs update() and stays active.
IntervalTick ==
    \E t \in intervals :
        /\ t.due <= now
        /\ \E m \in { intervalUpdate(
                        [This EXCEPT !.intervals =
                            (@ \ {t}) \cup {[t EXCEPT !.due = now + t.period]}]) } :
               CommitInterval(m, "wake")
        /\ UNCHANGED starts

\* Time passes.
IntervalElapse ==
    /\ now < IntervalHorizon
    /\ now' = now + IntervalQuantum
    /\ op' = "advance"
    /\ cycle' = NoCycle
    /\ UNCHANGED <<stepRate, delayClamp, stepFn, isRunning, residualDelayMs,
                   previousStepTime, pending, stepCount, lastStepTime,
                   dropCount, lastDrop, starts, tickIntervalId, intervals,
                   run>>

NextInterval == IntervalStart \/ IntervalStop \/ IntervalTick \/ IntervalElapse

SpecInterval == InitInterval /\ [][NextInterval]_vars

\* ------------------------------------------------- what a cycle's trace holds
Events(e) == SelectSeq(cycle.events, LAMBDA x : x.ev = e)

Dropped == Events("dropped")

Steps == Events("step")

Updates == Events("update")

CycleCompleted == cycle.ran /\ ~cycle.thrown

Arms == Events("arm")

\* The place of an event in a cycle: arm, dropped, step, update.
Rank(e) == CASE e = "arm" -> 0 [] e = "dropped" -> 1 [] e = "step" -> 2
             [] e = "update" -> 3

InOrder ==
    \A i \in 1..(Len(cycle.events) - 1) :
        Rank(cycle.events[i].ev) <= Rank(cycle.events[i + 1].ev)

\* The cycle armed one wake-up, first of all, for tickIntervalMs (as the host
\* rounds it) after the clock reading of the cycle; it dropped at most once.
ArmsThenDrops ==
    /\ Len(Arms) = 1
    /\ cycle.events[1].ev = "arm"
    /\ Arms[1].v = previousStepTime + TimerDelay
    /\ Len(Dropped) <= 1
    /\ InOrder

LastEvent == cycle.events[Len(cycle.events)]

\* ------------------------------------------------------------------ claims

\* C1: at most one wake-up is pending at any time, whatever the sequence of
\* start(), stop() and wake-ups (no two self-rescheduling chains).
C1_AtMostOneWakeUpPending == Len(pending) <= 1

\* C2: while the loop is stopped and until the next start(), no operation
\* invokes the step function or emits a notification, and a wake-up that fires
\* is a no-op: residual delay, previous wake time and running flag keep their
\* values and no further wake-up is armed.
C2_StoppedLoopIsInert ==
    [][ (~isRunning /\ op' # "start") =>
          /\ stepCount' = stepCount
          /\ dropCount' = dropCount
          /\ cycle'.events = << >>
          /\ residualDelayMs' = residualDelayMs
          /\ previousStepTime' = previousStepTime
          /\ isRunning' = isRunning
          /\ Len(pending') <= Len(pending) ]_vars

\* A wake-up armed by a run fired after the loop was stopped, and was consumed.
C2_Witness ==
    op = "wake" /\ ~cycle.ran /\ ~isRunning /\ starts > 0 /\ stepCount > 0
    /\ residualDelayMs > 0

\* C3: in the state right after stop() returns, the loop is not running and
\* no wake-up is scheduled.
C3_StopCancelsWakeUp == op = "stop" => (~isRunning /\ pending = << >>)

\* C4: after every completed cycle 0 <= residualDelayMs < tickIntervalMs, and
\* residualDelayAlpha and the onUpdate payload are in [0, 1).
InUnitInterval(f) == f.den > 0 /\ 0 <= f.num /\ f.num < f.den

C5_DropIffAboveClamp ==
    cycle.ran =>
        IF cycle.accrued > Ms(delayClamp)
        THEN /\ Len(Dropped) = 1
             /\ Dropped[1].v = cycle.accrued - Ms(delayClamp)
             /\ Dropped[1].v > 0
             /\ cycle.clamped = Ms(delayClamp)
        ELSE /\ Dropped = << >>
             /\ cycle.clamped = cycle.accrued

\* A cycle that dropped, then stepped.
C5_Witness ==
    cycle.ran /\ Len(Dropped) = 1 /\ Len(Steps) >= 1 /\ Dropped[1].v > Ms(1)

\* C9: right after start() the residual delay carried into the new run is 0.
C9_StartResetsResidual ==
    (op = "start" /\ cycle.ran) => cycle.accrued = 0

\* C10: stop() on a loop that is already stopped changes no state of the loop
\* and of the host's timer queue, invokes no step function and emits nothing
\* (so stop(); stop() leaves what a single stop() leaves).
C10_StopIdempotent ==
    [][ (~isRunning /\ op' = "stop") =>
          /\ isRunning' = isRunning
          /\ residualDelayMs' = residualDelayMs
          /\ previousStepTime' = previousStepTime
          /\ pending' = pending
          /\ now' = now
          /\ stepCount' = stepCount
          /\ dropCount' = dropCount
          /\ cycle'.events = << >> ]_vars

\* stop() was called on a loop that was never started, with time gone by.
C10_Witness == op = "stop" /\ starts = 0 /\ ~isRunning /\ now > 0

\* C6: with a step function of negligible execution time and wake-ups on time
\* (at most MaxJitter late), onGameStepDropped is never fired, for every
\* configured step rate and delayClampMs.  (Stated under SpecFast.)
C6_NeverDropsWhenFast == dropCount = 0

\* The clamp leaves room for the residual of one cycle and the elapsed time of
\* the next: two tick intervals and the jitter.
ClampHoldsTwoTicks == Ms(delayClamp) >= 2 * stepIntervalMs + Ms(MaxJitter)

\* C6 as amended: the same, for every delayClampMs of at least two tick
\* intervals plus the jitter.
C6_NeverDropsWhenFastAndRoomy ==
    ClampHoldsTwoTicks => (dropCount = 0 /\ Dropped = << >>)

\* A run of several on-time cycles, restarted once, with a clamp below the
\* default that stepped and dropped nothing.
C6_Witness ==
    /\ ClampHoldsTwoTicks /\ delayClamp < DefaultDelayClampMs
    /\ op = "wake" /\ cycle.ran /\ stepCount >= 3 /\ starts = 2
    /\ residualDelayMs > 0 /\ dropCount = 0

FloorInterval == 1000 \div stepRate

C11_SteppingResumesAfterDrop ==
    [](Dropped # << >> => <>(Steps # << >> \/ ~isRunning))

FirstIndex(e) ==
    CHOOSE i \in 1..Len(cycle.events) :
        /\ cycle.events[i].ev = e
        /\ \A k \in 1..(i - 1) : cycle.events[k].ev # e

\* C11 as amended: for every step rate and every delayClampMs of at least one
\* tick interval, the cycle that emits onGameStepDropped itself invokes the
\* step function, after the drop.
C11_DropCycleSteps ==
    (cycle.ran /\ Dropped # << >> /\ Ms(delayClamp) >= stepIntervalMs) =>
        /\ Steps # << >>
        /\ FirstIndex("dropped") < FirstIndex("step")

\* A wake-up dropped and went on to invoke the step function.
C11_Witness ==
    /\ op = "wake" /\ Len(Dropped) = 1 /\ Len(Steps) >= 1 /\ stepCount >= 2
    /\ Ms(delayClamp) >= stepIntervalMs /\ isRunning

\* C12: in the interval-timer variant isRunning() is true exactly when the
\* loop is running (its recurring timer is active): false after construction,
\* true after start(), false again after stop().  (Stated under SpecInterval.)
C12_IsRunningIffTimerActive ==
    /\ intervalIsRunning(This) <=> intervals # {}
    /\ op = "init" => ~intervalIsRunning(This)
    /\ op = "start" => intervalIsRunning(This)
    /\ op = "stop" => ~intervalIsRunning(This)

Invoked == stepCount - run.steps

C14_TimeAccounted ==
    cycle.ran =>
        /\ Invoked * stepIntervalMs + residualDelayMs + run.dropped
             = run.residual + Ms(previousStepTime - run.at)
        /\ Invoked * stepIntervalMs <= Ms(now - run.at) + run.residual

\* The invocations of the run that returned: all but the one that threw.
Returned ==
    Invoked - (IF stepFn.throwOn \in (run.steps + 1)..stepCount THEN 1 ELSE 0)

\* C14 as amended: the same with the step invocations that returned, where the
\* claim counts all invocations; an invocation that throws leaves the residual
\* as it is and is not accounted.
C14_ReturnedTimeAccounted ==
    cycle.ran =>
        /\ Returned * stepIntervalMs + residualDelayMs + run.dropped
             = run.residual + Ms(previousStepTime - run.at)
        /\ Returned * stepIntervalMs <= Ms(now - run.at) + run.residual

\* A restarted run that carried a residual in, stepped, and dropped.
C14_Witness ==
    /\ op = "wake" /\ cycle.ran /\ starts = 2 /\ run.residual > 0
    /\ run.dropped > 0 /\ Returned >= 2 /\ residualDelayMs > 0
    /\ previousStepTime > run.at

\* C15: in any single scheduling cycle, however much clock time elapsed since
\* the previous wake-up, the step function is invoked at most
\* floor(delayClampMs / tickIntervalMs) times.
MaxCatchUp == Ms(delayClamp) \div stepIntervalMs

C15_CatchUpBoundedByClamp == cycle.ran => Len(Steps) <= MaxCatchUp

\* A wake-up so late that backlog was dropped, and that caught up with as
\* many invocations as the clamp holds, more than one.
C15_Witness ==
    /\ op = "wake" /\ Len(Dropped) = 1 /\ Dropped[1].v >= Ms(2)
    /\ Len(Steps) = MaxCatchUp /\ MaxCatchUp >= 2

\* C16: if the step function throws during a cycle, the cycle's remaining
\* drain iterations and its onUpdate are skipped, the loop stays running and
\* the wake-up armed at the start of the cycle is still pending; armed wake-ups
\* eventually firing, a following cycle runs to its end.  (Stated under
\* SpecLive.)
ThrownCycleLeavesWakeUp ==
    cycle.thrown =>
        /\ Len(Arms) = 1
        /\ Updates = << >>
        /\ LastEvent.ev = "step"
        /\ residualDelayMs >= stepIntervalMs
        /\ isRunning
        /\ \E i \in 1..Len(pending) : pending[i].due = Arms[1].v

C16_LoopContinuesAfterThrow ==
    /\ []ThrownCycleLeavesWakeUp
    /\ [](cycle.thrown => <>(op = "wake" /\ CycleCompleted))

\* The step function threw, and a later cycle invoked it again and notified.
C16_Witness ==
    /\ op = "wake" /\ CycleCompleted /\ stepFn.throwOn > 0
    /\ stepCount > stepFn.throwOn /\ Steps # << >> /\ Len(Updates) = 1

\* C17: when the step function itself calls stop(), it is not invoked again
\* until a later start(): not by a later wake-up and not by the remaining
\* iterations of the drain loop of the cycle in which stop() was called.
\* (A later wake-up finds the loop stopped: C2.)  In the cycle in which
\* invocation number stopOn called stop(), that invocation is the last.
StopCalledInCycle ==
    /\ cycle.ran
    /\ stepCount - Len(Steps) < stepFn.stopOn
    /\ stepFn.stopOn <= stepCount

C17_NoInvocationAfterStopFromStep ==
    StopCalledInCycle => stepCount = stepFn.stopOn

\* C18: clock time that passes while the loop is stopped is never accounted:
\* start() sets the previous wake time to the current time, so that its cycle
\* adds nothing to the residual carried in, and the cycles of the run account
\* clock time from the start() on only (what they have stepped, dropped and
\* kept is the carried residual and the time since start()).
C18_StoppedTimeNotAccounted ==
    /\ op = "start" =>
          /\ previousStepTime = run.at
          /\ cycle.accrued = run.residual
    /\ cycle.ran =>
          /\ previousStepTime >= run.at
          /\ Returned * stepIntervalMs + residualDelayMs + run.dropped
               <= run.residual + Ms(now - run.at)

\* start() was called on a stopped loop whose previous wake-up was more than
\* two tick intervals ago: its cycle stepped and dropped nothing.
C18_Witness ==
    /\ op = "start" /\ starts = 2 /\ cycle.wasStopped
    /\ now - cycle.prevWake > 2 * TimerDelay /\ Ms(now - cycle.prevWake) > Ms(delayClamp)
    /\ Steps = << >> /\ Dropped = << >> /\ stepCount > 0

\* C19: in the interval-timer variant start() arms a recurring wake-up whose
\* period is the tick interval 1000 / stepRateHz ms (msPerStep), for every step
\* rate, and starting while already running replaces the previous recurring
\* timer, so that only one is active.  (Stated under SpecInterval.)
C19_PeriodIsTickInterval ==
    /\ Cardinality(intervals) <= 1
    /\ \A t \in intervals : Ms(t.period) = msPerStep

\* C20: when delayClampMs < tickIntervalMs the step function is never invoked
\* in any run, whatever the elapsed times: every cycle emits drops and updates
\* only, and the residual after each cycle is at most delayClampMs.
ClampBelowInterval == Ms(delayClamp) < stepIntervalMs

C20_NoStepWhenClampBelowInterval ==
    ClampBelowInterval =>
        /\ stepCount = 0
        /\ lastStepTime = None
        /\ residualDelayMs <= Ms(delayClamp)
        /\ cycle.ran =>
              /\ Steps = << >>
              /\ cycle.clamped <= Ms(delayClamp)
              /\ Len(Updates) = 1

\* A restarted loop whose late wake-ups dropped again and again, the residual
\* being the clamp, with no invocation.
C20_Witness ==
    /\ ClampBelowInterval /\ op = "wake" /\ cycle.ran /\ starts = 2
    /\ dropCount >= 3 /\ Len(Dropped) = 1 /\ Dropped[1].v > stepIntervalMs
    /\ residualDelayMs = Ms(delayClamp) /\ stepCount = 0

====
